---- MODULE Spec2Model ----
(***************************************************************************)
(* Semantic core of the projeto1 compiler front end: the Action node       *)
(* hierarchy (Action.hpp) and the diagnostic helpers (utils.hpp).          *)
(*                                                                         *)
(* A node is seen by its parent only through type() and error(), so a     *)
(* built node is summarised as [type, err].  Every constructor is an       *)
(* operator computing the node's fields and the diagnostics it echoes; an  *)
(* std::out_of_range thrown by a table lookup is recorded as threw.        *)
(***************************************************************************)
EXTENDS Integers, Sequences, FiniteSets, TLC

VARIABLES stack, last, crashed, scope, decl, funs, args, lines, line

vars == <<stack, last, crashed, scope, decl, funs, args, lines, line>>

(***************************************************************************)
(* Bounds of the model.                                                   *)
(***************************************************************************)
MaxDepth == 2
MaxLine == 3
MaxLines == 2
MaxParams == 2
MaxArgs == 2

(***************************************************************************)
(* utils.hpp: enumerations and tables.                                     *)
(***************************************************************************)
Type == {"INT", "FLOAT", "BOOL", "VOID", "ANY"}

Operator ==
    {"EQUAL", "NOT_EQUAL", "GREATER_THAN", "LESS_THAN", "GREATER_EQUAL_THAN",
     "LESS_EQUAL_THAN", "AND", "OR", "NOT", "PLUS", "MINUS", "TIMES", "DIVIDE",
     "UNARY_MINUS", "ASSIGN", "PAR", "CAST", "TEST"}

Error ==
    {"MULTIPLE_DEFINITION", "UNDECLARED_VARIABLE", "INCOMPATIBLE_OPERANDS",
     "INCOMPATIBLE_ASSIGNMENT", "INCOMPATIBLE_TEST", "DECLARED_BUT_NEVER_DEFINED",
     "MULTIPLE_DEFINITION_FN", "WRONG_PARAM_COUNT", "INCOMPATIBLE_PARAM",
     "INCOMPATIBLE_INDEX", "NON_ARRAY_INDEX"}

type_table ==
    [t \in {"INT", "FLOAT", "BOOL"} |->
        CASE t = "INT" -> "int" [] t = "FLOAT" -> "float" [] t = "BOOL" -> "bool"]

operator_table ==
    [o \in {"EQUAL", "NOT_EQUAL", "GREATER_THAN", "LESS_THAN", "GREATER_EQUAL_THAN",
            "LESS_EQUAL_THAN", "AND", "OR", "NOT", "PLUS", "MINUS", "TIMES",
            "DIVIDE"} |->
        CASE o = "EQUAL" -> "=="
          [] o = "NOT_EQUAL" -> "!="
          [] o = "GREATER_THAN" -> ">"
          [] o = "LESS_THAN" -> "<"
          [] o = "GREATER_EQUAL_THAN" -> ">="
          [] o = "LESS_EQUAL_THAN" -> "<="
          [] o = "AND" -> "&"
          [] o = "OR" -> "|"
          [] o = "NOT" -> "!"
          [] o = "PLUS" -> "+"
          [] o = "MINUS" -> "-"
          [] o = "TIMES" -> "*"
          [] o = "DIVIDE" -> "/"]

printable_type_table ==
    [t \in {"INT", "FLOAT", "BOOL"} |->
        CASE t = "INT" -> "integer"
          [] t = "FLOAT" -> "float"
          [] t = "BOOL" -> "boolean"]

printable_operator_table ==
    [o \in {"EQUAL", "NOT_EQUAL", "GREATER_THAN", "LESS_THAN", "GREATER_EQUAL_THAN",
            "LESS_EQUAL_THAN", "AND", "OR", "NOT", "PLUS", "MINUS", "TIMES",
            "DIVIDE", "UNARY_MINUS", "ASSIGN", "TEST"} |->
        CASE o = "EQUAL" -> "equal"
          [] o = "NOT_EQUAL" -> "different"
          [] o = "GREATER_THAN" -> "greater than"
          [] o = "LESS_THAN" -> "less than"
          [] o = "GREATER_EQUAL_THAN" -> "greater or equal than"
          [] o = "LESS_EQUAL_THAN" -> "less or equal than"
          [] o = "AND" -> "and"
          [] o = "OR" -> "or"
          [] o = "NOT" -> "negation"
          [] o = "PLUS" -> "addition"
          [] o = "MINUS" -> "subtraction"
          [] o = "TIMES" -> "multiplication"
          [] o = "DIVIDE" -> "division"
          [] o = "UNARY_MINUS" -> "unary minus"
          [] o = "ASSIGN" -> "attribution"
          [] o = "TEST" -> "test"]

(* The result of a call that may throw: a value, or threw = TRUE.          *)
Returned(v) == [threw |-> FALSE, value |-> v]

Thrown == [threw |-> TRUE, value |-> <<>>]

(* unordered_map::at throws std::out_of_range for a missing key.           *)
at(table, key) == IF key \in DOMAIN table THEN Returned(<<table[key]>>) ELSE Thrown

to_printable_string_type(type) == at(printable_type_table, type)

to_printable_string_op(op) == at(printable_operator_table, op)

to_string_type(type) == at(type_table, type)

(* to_string(Operator) reading the table of printable names. *)
to_string_op_printable(op) == at(printable_operator_table, op)

to_string_op(op) == at(operator_table, op)

(* can_coerce with its two parameters swapped. *)
can_coerce_swapped(target, source) == target = "INT" /\ source = "FLOAT"

can_coerce(target, source) == target = "FLOAT" /\ source = "INT"

type_matches(target, source) == target = source

(* std::to_string of a size_t: its decimal digits, most significant first. *)
Digit == <<"0", "1", "2", "3", "4", "5", "6", "7", "8", "9">>

RECURSIVE size_to_string(_)
size_to_string(n) ==
    IF n < 10 THEN <<Digit[n + 1]>>
    ELSE size_to_string(n \div 10) \o <<Digit[(n % 10) + 1]>>

(* error_prefix counting lines from zero. *)
error_prefix_zero_based(type, ln) ==
    <<"[Line ">> \o size_to_string(ln - 1) \o <<"] ", type, " error: ">>

(* error_prefix reads the line counter (ln) at the moment of the call.     *)
error_prefix(type, ln) == <<"[Line ">> \o size_to_string(ln) \o <<"] ", type, " error: ">>

(* echo: one line on std::cerr; err tags the specialisation that wrote it. *)
echo(err, text) == [threw |-> FALSE, out |-> <<[err |-> err, text |-> text]>>]

Raise == [threw |-> TRUE, out |-> <<>>]

semantic_error_MULTIPLE_DEFINITION_FN(name, ln) ==
    echo("MULTIPLE_DEFINITION_FN",
         error_prefix("semantic", ln) \o <<"re-declaration of function ", name>>)

(* semantic_error<MULTIPLE_DEFINITION> writing the function message.       *)
semantic_error_MULTIPLE_DEFINITION_as_FN(name, ln) ==
    semantic_error_MULTIPLE_DEFINITION_FN(name, ln)

semantic_error_MULTIPLE_DEFINITION(name, ln) ==
    echo("MULTIPLE_DEFINITION",
         error_prefix("semantic", ln) \o <<"re-declaration of variable ", name>>)

semantic_error_UNDECLARED_VARIABLE(name, ln) ==
    echo("UNDECLARED_VARIABLE",
         error_prefix("semantic", ln) \o <<"undeclared variable ", name>>)

semantic_error_DECLARED_BUT_NEVER_DEFINED(name, ln) ==
    echo("DECLARED_BUT_NEVER_DEFINED",
         error_prefix("semantic", ln) \o <<"function ", name, " is declared but never defined">>)

(* The three lookups come first; the first one that misses throws and      *)
(* nothing is echoed.                                                     *)
incompatible_operands(err, op, expected, actual, ln) ==
    LET op_name == to_printable_string_op(op)
        expected_str == to_printable_string_type(expected)
        actual_str == to_printable_string_type(actual)
    IN  IF op_name.threw \/ expected_str.threw \/ actual_str.threw THEN Raise
        ELSE echo(err, error_prefix("semantic", ln) \o op_name.value
                       \o <<" operation expected ">> \o expected_str.value
                       \o <<" but received ">> \o actual_str.value)

semantic_error_INCOMPATIBLE_OPERANDS(op, expected, actual, ln) ==
    incompatible_operands("INCOMPATIBLE_OPERANDS", op, expected, actual, ln)

semantic_error_INCOMPATIBLE_ASSIGNMENT(expected, actual, ln) ==
    incompatible_operands("INCOMPATIBLE_ASSIGNMENT", "ASSIGN", expected, actual, ln)

semantic_error_INCOMPATIBLE_TEST(received, ln) ==
    incompatible_operands("INCOMPATIBLE_TEST", "TEST", "BOOL", received, ln)

semantic_error_WRONG_PARAM_COUNT(name, expected, actual, ln) ==
    echo("WRONG_PARAM_COUNT",
         error_prefix("semantic", ln) \o <<"function ", name, " expects ">>
         \o size_to_string(expected) \o <<" parameters but received ">>
         \o size_to_string(actual))

semantic_error_INCOMPATIBLE_PARAM(name, expected, actual, ln) ==
    LET expected_str == to_printable_string_type(expected)
        actual_str == to_printable_string_type(actual)
    IN  IF expected_str.threw \/ actual_str.threw THEN Raise
        ELSE echo("INCOMPATIBLE_PARAM",
                  error_prefix("semantic", ln) \o <<"parameter ", name, " expected ">>
                  \o expected_str.value \o <<" but received ">> \o actual_str.value)

semantic_error_INCOMPATIBLE_INDEX(expected, actual, ln) ==
    LET expected_str == to_printable_string_type(expected)
        actual_str == to_printable_string_type(actual)
    IN  IF expected_str.threw \/ actual_str.threw THEN Raise
        ELSE echo("INCOMPATIBLE_INDEX",
                  error_prefix("semantic", ln) \o <<"index operator expects ">>
                  \o expected_str.value \o <<" but received ">> \o actual_str.value)

semantic_error_NON_ARRAY_INDEX(ln) ==
    echo("NON_ARRAY_INDEX", error_prefix("semantic", ln) \o <<"index operator expects an array">>)

(***************************************************************************)
(* Action.hpp: the node hierarchy.                                        *)
(***************************************************************************)
(* What a parent reads of a child: type() and error().                    *)
Node(t, e) == [type |-> t, err |-> e]

(* Action::error(): the default every class inherits unless it overrides.  *)
Action_error == FALSE

(* The outcome of one construction or call.                                *)
Rec(kind, op, given, name, children, node, diags, threw) ==
    [kind |-> kind, op |-> op, given |-> given, name |-> name, children |-> children,
     t |-> node.t, fail |-> node.fail, needs_coercion |-> node.needs_coercion,
     error |-> node.error, diags |-> diags, threw |-> threw, types |-> <<>>]

Fields(t, fail, nc, error) == [t |-> t, fail |-> fail, needs_coercion |-> nc, error |-> error]

NoNode == Fields("VOID", FALSE, FALSE, FALSE)

NoLast == Rec("none", "none", "none", "", <<>>, NoNode, <<>>, FALSE)

Nop_type == "VOID"

LiteralTypes == DOMAIN type_table

(* Constant(type, value): holds the literal's type; never an error.        *)
Constant_ctor(type) == Fields(type, FALSE, FALSE, FALSE)

Names == {"x", "y"}

FunNames == {"f"}

NoSymbol == "none"

(* Variable(name): looks the name up in the symbol map.                    *)
Variable_ctor(name, symbols, ln) ==
    IF symbols[name] # NoSymbol
    THEN [node |-> Fields(symbols[name], FALSE, FALSE, FALSE), diags |-> <<>>]
    ELSE [node |-> Fields("ANY", TRUE, FALSE, TRUE),
          diags |-> semantic_error_UNDECLARED_VARIABLE(name, ln).out]

(* An Operation under construction.                                        *)
OperationState(op, t) ==
    [op |-> op, t |-> t, fail |-> FALSE, needs_coercion |-> FALSE,
     children |-> <<>>, diags |-> <<>>, threw |-> FALSE]

(* Operation::check: the compatibility check of one child against *)
(* the type accumulated so far.                                            *)
check(self, action, ln) ==
    IF self.t = "ANY" THEN self
    ELSE IF type_matches(self.t, action.type) THEN self
    ELSE IF can_coerce(self.t, action.type) \/ can_coerce(action.type, self.t)
         THEN [self EXCEPT !.needs_coercion = TRUE]
    ELSE LET e == semantic_error_INCOMPATIBLE_OPERANDS(self.op, self.t, action.type, ln)
         IN  IF e.threw THEN [self EXCEPT !.threw = TRUE]
             ELSE [self EXCEPT !.fail = TRUE, !.t = "ANY", !.diags = @ \o e.out]

(* set_children(Action*, Args&&...): one child at a time, left to right;   *)
(* an exception leaving check ends the construction.                       *)
RECURSIVE set_children(_, _, _)
set_children(self, actions, ln) ==
    IF actions = <<>> \/ self.threw THEN self
    ELSE LET action == Head(actions)
             s1 == [self EXCEPT !.fail = self.fail \/ action.err]
             s2 == IF ~s1.fail THEN check(s1, action, ln) ELSE s1
             s3 == IF s2.threw THEN s2 ELSE [s2 EXCEPT !.children = Append(@, action)]
         IN  set_children(s3, Tail(actions), ln)

(* Operation_first with the assignment t = first->type() left out: t keeps *)
(* the enumeration's first value.                                          *)
Operation_first_no_type(op, actions, ln) ==
    set_children(OperationState(op, "INT"), actions, ln)

(* Operation(Operator, Action* first, Args&&...): t = first->type().       *)
Operation_first(op, actions, ln) ==
    set_children(OperationState(op, actions[1].type), actions, ln)

(* Operation(Operator, Type, Args&&...): t = type.                         *)
Operation_typed(op, type, actions, ln) ==
    set_children(OperationState(op, type), actions, ln)

Operation_set_type(self, type) == [self EXCEPT !.t = type]

Operation_type(self) == self.t

Operation_error(self) == self.fail

Comparison_ctor(op, actions, ln) ==
    LET o == Operation_first(op, actions, ln)
    IN  IF o.threw THEN o ELSE Operation_set_type(o, "BOOL")

BoolOperation_ctor(op, actions, ln) == Operation_typed(op, "BOOL", actions, ln)

Parenthesis_ctor(operand, ln) == Operation_first("PAR", <<operand>>, ln)

UnaryMinus_ctor(operand, ln) == Operation_first("UNARY_MINUS", <<operand>>, ln)

(* Cast without its set_type(type) call. *)
Cast_ctor_no_set_type(type, operand, ln) == Operation_first("CAST", <<operand>>, ln)

Cast_ctor(type, operand, ln) ==
    LET o == Operation_first("CAST", <<operand>>, ln)
    IN  IF o.threw THEN o ELSE Operation_set_type(o, type)

(* Assignment(var, rhs): sets fail; the class has no error() of its own.   *)
Assignment_ctor(var, rhs, ln) ==
    IF var.err \/ rhs.err
    THEN [fail |-> TRUE, diags |-> <<>>, threw |-> FALSE]
    ELSE IF type_matches(var.type, rhs.type) \/ can_coerce(var.type, rhs.type)
    THEN [fail |-> FALSE, diags |-> <<>>, threw |-> FALSE]
    ELSE LET e == semantic_error_INCOMPATIBLE_ASSIGNMENT(var.type, rhs.type, ln)
         IN  IF e.threw THEN [fail |-> FALSE, diags |-> <<>>, threw |-> TRUE]
             ELSE [fail |-> TRUE, diags |-> e.out, threw |-> FALSE]

Assignment_type == "VOID"

Assignment_error == Action_error

(***************************************************************************)
(* The build: nodes are made bottom-up; a finished node waits on the stack *)
(* until a parent takes it as a child.  An exception leaving a constructor *)
(* is caught nowhere, so the run ends there.                               *)
(***************************************************************************)
TypeNone == "none"

Init ==
    /\ stack = <<>>
    /\ last = NoLast
    /\ crashed = FALSE
    /\ scope = [n \in Names |-> NoSymbol]
    /\ decl = TypeNone
    /\ funs = [f \in FunNames |-> [declared |-> FALSE, params |-> <<>>, ret |-> "VOID"]]
    /\ args = [made |-> FALSE, expressions |-> <<>>, fail |-> FALSE]
    /\ lines = <<>>
    /\ line = 1

Top(n) == SubSeq(stack, Len(stack) - n + 1, Len(stack))

Rest(n) == SubSeq(stack, 1, Len(stack) - n)

ArithmeticOps == {"PLUS", "MINUS", "TIMES", "DIVIDE"}

ComparisonOps ==
    {"EQUAL", "NOT_EQUAL", "GREATER_THAN", "LESS_THAN", "GREATER_EQUAL_THAN",
     "LESS_EQUAL_THAN"}

BoolOps == {"AND", "OR", "NOT"}

(* A leaf is pushed. *)
Push(kind, given, name, node, diags) ==
    /\ stack' = Append(stack, Node(node.t, node.error))
    /\ last' = Rec(kind, "none", given, name, <<>>, node, diags, FALSE)
    /\ crashed' = FALSE

(* An Operation (or subclass) built from the top n nodes replaces them;    *)
(* if its constructor threw, no node exists and the run is over.           *)
Reduce(kind, given, n, o) ==
    /\ last' = Rec(kind, o.op, given, "", Top(n),
                   Fields(Operation_type(o), o.fail, o.needs_coercion, Operation_error(o)),
                   o.diags, o.threw)
    /\ crashed' = o.threw
    /\ stack' = IF o.threw THEN Rest(n)
                ELSE Append(Rest(n), Node(Operation_type(o), Operation_error(o)))

NewConstant(type) ==
    /\ ~crashed /\ Len(stack) < MaxDepth
    /\ Push("Constant", type, "", Constant_ctor(type), <<>>)
    /\ UNCHANGED <<scope, decl, funs, args, lines, line>>

NewNop ==
    /\ ~crashed /\ Len(stack) < MaxDepth
    /\ Push("Nop", TypeNone, "", Fields(Nop_type, FALSE, FALSE, Action_error), <<>>)
    /\ UNCHANGED <<scope, decl, funs, args, lines, line>>

NewVariable(name) ==
    /\ ~crashed /\ Len(stack) < MaxDepth
    /\ LET v == Variable_ctor(name, scope, line)
       IN  Push("Variable", TypeNone, name, v.node, v.diags)
    /\ UNCHANGED <<scope, decl, funs, args, lines, line>>

NewOperation(op, n) ==
    /\ ~crashed /\ n \in 1..Len(stack)
    /\ Reduce("Operation", TypeNone, n, Operation_first(op, Top(n), line))
    /\ UNCHANGED <<scope, decl, funs, args, lines, line>>

NewComparison(op, n) ==
    /\ ~crashed /\ n \in 1..Len(stack)
    /\ Reduce("Comparison", TypeNone, n, Comparison_ctor(op, Top(n), line))
    /\ UNCHANGED <<scope, decl, funs, args, lines, line>>

NewBoolOperation(op, n) ==
    /\ ~crashed /\ n \in 1..Len(stack)
    /\ Reduce("BoolOperation", TypeNone, n, BoolOperation_ctor(op, Top(n), line))
    /\ UNCHANGED <<scope, decl, funs, args, lines, line>>

NewParenthesis ==
    /\ ~crashed /\ Len(stack) >= 1
    /\ Reduce("Parenthesis", TypeNone, 1, Parenthesis_ctor(Top(1)[1], line))
    /\ UNCHANGED <<scope, decl, funs, args, lines, line>>

NewUnaryMinus ==
    /\ ~crashed /\ Len(stack) >= 1
    /\ Reduce("UnaryMinus", TypeNone, 1, UnaryMinus_ctor(Top(1)[1], line))
    /\ UNCHANGED <<scope, decl, funs, args, lines, line>>

NewCast(type) ==
    /\ ~crashed /\ Len(stack) >= 1
    /\ Reduce("Cast", type, 1, Cast_ctor(type, Top(1)[1], line))
    /\ UNCHANGED <<scope, decl, funs, args, lines, line>>

NewAssignment ==
    /\ ~crashed /\ Len(stack) >= 2
    /\ LET a == Assignment_ctor(Top(2)[1], Top(2)[2], line)
       IN  /\ last' = Rec("Assignment", "ASSIGN", TypeNone, "", Top(2),
                          Fields(Assignment_type, a.fail, FALSE, Assignment_error),
                          a.diags, a.threw)
           /\ crashed' = a.threw
           /\ stack' = IF a.threw THEN Rest(2)
                       ELSE Append(Rest(2), Node(Assignment_type, Assignment_error))
    /\ UNCHANGED <<scope, decl, funs, args, lines, line>>

Next ==
    \/ \E type \in LiteralTypes : NewConstant(type)
    \/ NewNop
    \/ \E name \in Names : NewVariable(name)
    \/ \E op \in ArithmeticOps, n \in 1..MaxDepth : NewOperation(op, n)
    \/ \E op \in ComparisonOps, n \in 1..MaxDepth : NewComparison(op, n)
    \/ \E op \in BoolOps, n \in 1..MaxDepth : NewBoolOperation(op, n)
    \/ NewParenthesis
    \/ NewUnaryMinus
    \/ \E type \in Type : NewCast(type)
    \/ NewAssignment

Spec == Init /\ [][Next]_vars

(***************************************************************************)
(* Properties of expression nodes (specification Spec).                    *)
(***************************************************************************)
ErrorFree(cs) == \A i \in 1..Len(cs) : ~cs[i].err

SameType(cs) == \A i, j \in 1..Len(cs) : cs[i].type = cs[j].type

OperationKinds ==
    {"Operation", "Comparison", "BoolOperation", "Parenthesis", "UnaryMinus", "Cast"}

EqualPair == Len(last.children) = 2 /\ ErrorFree(last.children) /\ SameType(last.children)

Silent == last.diags = <<>> /\ ~last.threw

(* C1 as written: on every error-free pair of equal types an Operation is  *)
(* silent and has the first operand's type, and a Comparison or a          *)
(* BoolOperation is silent and has type BOOL.                              *)
C1_AsWritten ==
    EqualPair =>
        /\ last.kind = "Operation" => Silent /\ last.t = last.children[1].type
        /\ last.kind \in {"Comparison", "BoolOperation"} => Silent /\ last.t = "BOOL"

(* C1 amended: on every error-free pair of equal types an Operation is     *)
(* silent and has the first operand's type and a Comparison is silent and  *)
(* has type BOOL; a BoolOperation is silent with type BOOL when both       *)
(* operands are BOOL.                                                      *)
C1_EqualTypesAccepted ==
    EqualPair =>
        /\ last.kind = "Operation" => Silent /\ last.t = last.children[1].type
        /\ last.kind = "Comparison" => Silent /\ last.t = "BOOL"
        /\ last.kind = "BoolOperation" /\ last.children[1].type = "BOOL"
              => Silent /\ last.t = "BOOL"

C1_Witness ==
    /\ last.kind = "BoolOperation" /\ EqualPair
    /\ last.children[1].type = "BOOL" /\ last.t = "BOOL" /\ Silent

(* C2: an Operation on an error-free pair of unequal types is accepted     *)
(* with the coercion marker and no diagnostic when the pair is INT and     *)
(* FLOAT in either order; otherwise it emits exactly one                   *)
(* INCOMPATIBLE_OPERANDS diagnostic and its failed flag is set.            *)
C2_UnequalTypes ==
    (/\ last.kind = "Operation" /\ Len(last.children) = 2
     /\ ErrorFree(last.children) /\ ~SameType(last.children)) =>
        IF {last.children[1].type, last.children[2].type} = {"INT", "FLOAT"}
        THEN Silent /\ last.needs_coercion /\ ~last.fail
        ELSE /\ ~last.threw
             /\ Len(last.diags) = 1
             /\ last.diags[1].err = "INCOMPATIBLE_OPERANDS"
             /\ last.fail

FirstError(cs) == CHOOSE k \in 1..Len(cs) : cs[k].err /\ \A i \in 1..(k - 1) : ~cs[i].err

(* C3: a parent built over a child that already carries an error emits no  *)
(* diagnostic for that child or a later one (so at most one per earlier    *)
(* child) and its error() is true.                                         *)
C3_CascadeSuppression ==
    (/\ last.kind \in OperationKinds \cup {"Assignment"}
     /\ ~ErrorFree(last.children)) =>
        /\ Len(last.diags) <= FirstError(last.children) - 1
        /\ last.error

(* C8: an Operation with a VOID-typed operand in any position is marked    *)
(* failed.                                                                 *)
C8_VoidOperandFails ==
    (/\ last.kind = "Operation"
     /\ \E i \in 1..Len(last.children) : last.children[i].type = "VOID") =>
        ~last.threw /\ last.fail

Text(ln, parts) == error_prefix("semantic", ln) \o parts

(* C9: an Assignment over two error-free children is accepted silently     *)
(* exactly when the value's type equals the target's or the target is      *)
(* FLOAT and the value INT; otherwise it emits exactly one                 *)
(* INCOMPATIBLE_ASSIGNMENT(target, value) diagnostic and is marked failed; *)
(* its own type is VOID in all cases.                                      *)
C9_Assignment ==
    (last.kind = "Assignment" /\ ErrorFree(last.children)) =>
        LET target == last.children[1].type
            value == last.children[2].type
        IN  /\ ~last.threw
            /\ last.t = "VOID"
            /\ IF value = target \/ (target = "FLOAT" /\ value = "INT")
               THEN last.diags = <<>> /\ ~last.fail
               ELSE /\ Len(last.diags) = 1
                    /\ last.diags[1].err = "INCOMPATIBLE_ASSIGNMENT"
                    /\ last.diags[1].text =
                          Text(line, <<"attribution", " operation expected ",
                                       printable_type_table[target], " but received ",
                                       printable_type_table[value]>>)
                    /\ last.fail

(* C10: a Cast of an error-free operand emits no diagnostic, is not marked *)
(* failed, and has the target type, whatever the operand's type.           *)
C10_CastOverrides ==
    (last.kind = "Cast" /\ ErrorFree(last.children)) =>
        /\ Silent
        /\ ~last.fail /\ ~last.error
        /\ last.t = last.given

C10_Witness ==
    /\ last.kind = "Cast" /\ ErrorFree(last.children)
    /\ last.children[1].type = "BOOL" /\ last.given = "FLOAT" /\ last.t = "FLOAT"
    /\ Top(1)[1] = Node("FLOAT", FALSE)

(***************************************************************************)
(* The diagnostic reporter on its own (specification SpecDiag): the line   *)
(* counter and every semantic_error specialisation, called directly.       *)
(***************************************************************************)
(* line_counter::operator++ *)
line_counter_increment(val) == val + 1

IncrementLine ==
    /\ ~crashed /\ line < MaxLine
    /\ line' = line_counter_increment(line)
    /\ last' = Rec("line_counter", "none", TypeNone, "", <<>>, NoNode, <<>>, FALSE)
    /\ UNCHANGED <<stack, crashed, scope, decl, funs, args, lines>>

(* One call of semantic_error<err>(...) with result e.                     *)
Emit(err, op, name, types, e) ==
    /\ ~crashed
    /\ last' = [Rec("semantic_error", op, err, name, <<>>, NoNode, e.out, e.threw)
                   EXCEPT !.types = types]
    /\ crashed' = e.threw
    /\ UNCHANGED <<stack, scope, decl, funs, args, lines, line>>

EmitMultipleDefinition(name) ==
    Emit("MULTIPLE_DEFINITION", "none", name, <<>>,
         semantic_error_MULTIPLE_DEFINITION(name, line))

EmitMultipleDefinitionFn(name) ==
    Emit("MULTIPLE_DEFINITION_FN", "none", name, <<>>,
         semantic_error_MULTIPLE_DEFINITION_FN(name, line))

EmitUndeclaredVariable(name) ==
    Emit("UNDECLARED_VARIABLE", "none", name, <<>>,
         semantic_error_UNDECLARED_VARIABLE(name, line))

EmitDeclaredButNeverDefined(name) ==
    Emit("DECLARED_BUT_NEVER_DEFINED", "none", name, <<>>,
         semantic_error_DECLARED_BUT_NEVER_DEFINED(name, line))

EmitIncompatibleOperands(op, expected, actual) ==
    Emit("INCOMPATIBLE_OPERANDS", op, "", <<expected, actual>>,
         semantic_error_INCOMPATIBLE_OPERANDS(op, expected, actual, line))

EmitIncompatibleAssignment(expected, actual) ==
    Emit("INCOMPATIBLE_ASSIGNMENT", "none", "", <<expected, actual>>,
         semantic_error_INCOMPATIBLE_ASSIGNMENT(expected, actual, line))

EmitIncompatibleTest(received) ==
    Emit("INCOMPATIBLE_TEST", "none", "", <<received>>,
         semantic_error_INCOMPATIBLE_TEST(received, line))

EmitWrongParamCount(name, expected, actual) ==
    Emit("WRONG_PARAM_COUNT", "none", name, <<>>,
         semantic_error_WRONG_PARAM_COUNT(name, expected, actual, line))

EmitIncompatibleParam(name, expected, actual) ==
    Emit("INCOMPATIBLE_PARAM", "none", name, <<expected, actual>>,
         semantic_error_INCOMPATIBLE_PARAM(name, expected, actual, line))

EmitIncompatibleIndex(expected, actual) ==
    Emit("INCOMPATIBLE_INDEX", "none", "", <<expected, actual>>,
         semantic_error_INCOMPATIBLE_INDEX(expected, actual, line))

EmitNonArrayIndex ==
    Emit("NON_ARRAY_INDEX", "none", "", <<>>, semantic_error_NON_ARRAY_INDEX(line))

(* One call of utils::to_string(Operator) or                               *)
(* utils::to_printable_string(Operator) with result r.                     *)
Lookup(kind, op, r) ==
    /\ ~crashed
    /\ last' = [Rec(kind, op, "Operator", "", <<>>, NoNode, <<>>, r.threw)
                   EXCEPT !.types = r.value]
    /\ crashed' = r.threw
    /\ UNCHANGED <<stack, scope, decl, funs, args, lines, line>>

OperatorSymbol(op) == Lookup("to_string", op, to_string_op(op))

OperatorName(op) == Lookup("to_printable_string", op, to_printable_string_op(op))

NextDiag ==
    \/ IncrementLine
    \/ \E op \in Operator : OperatorSymbol(op)
    \/ \E op \in Operator : OperatorName(op)
    \/ \E name \in Names : EmitMultipleDefinition(name)
    \/ \E name \in FunNames : EmitMultipleDefinitionFn(name)
    \/ \E name \in Names : EmitUndeclaredVariable(name)
    \/ \E name \in FunNames : EmitDeclaredButNeverDefined(name)
    \/ \E op \in Operator, expected, actual \in Type :
          EmitIncompatibleOperands(op, expected, actual)
    \/ \E expected, actual \in Type : EmitIncompatibleAssignment(expected, actual)
    \/ \E received \in Type : EmitIncompatibleTest(received)
    \/ \E name \in FunNames, expected \in 0..MaxParams, actual \in 0..MaxArgs :
          EmitWrongParamCount(name, expected, actual)
    \/ \E name \in FunNames, expected, actual \in Type :
          EmitIncompatibleParam(name, expected, actual)
    \/ \E expected, actual \in Type : EmitIncompatibleIndex(expected, actual)
    \/ EmitNonArrayIndex

SpecDiag == Init /\ [][NextDiag]_vars

TypedErrors ==
    {"INCOMPATIBLE_OPERANDS", "INCOMPATIBLE_ASSIGNMENT", "INCOMPATIBLE_TEST",
     "INCOMPATIBLE_PARAM", "INCOMPATIBLE_INDEX"}

(* C6: emitting a diagnostic that names a type completes normally with a   *)
(* message for every value of Type as expected or actual type; nothing is  *)
(* thrown.                                                                 *)
C6_NoDiagnosticThrows ==
    (last.kind = "semantic_error" /\ last.given \in TypedErrors
     /\ last.op \in DOMAIN printable_operator_table \cup {"none"}) =>
        ~last.threw /\ Len(last.diags) = 1 /\ ~crashed

(***************************************************************************)
(* Block (specification SpecBlock): statements are appended one at a time. *)
(***************************************************************************)
(* Block::add: the line joins the list. *)
Block_add(ls, action) == Append(ls, action)

(* Block declares no error(): a call resolves to Action::error().          *)
Block_error(ls) == Action_error

Block_type == "VOID"

BlockAdd ==
    /\ ~crashed /\ Len(stack) >= 1 /\ Len(lines) < MaxLines
    /\ lines' = Block_add(lines, Top(1)[1])
    /\ stack' = Rest(1)
    /\ last' = Rec("Block::add", "none", TypeNone, "", Top(1),
                   Fields(Block_type, FALSE, FALSE, Block_error(lines')), <<>>, FALSE)
    /\ UNCHANGED <<crashed, scope, decl, funs, args, line>>

NextBlock ==
    \/ \E type \in LiteralTypes : NewConstant(type)
    \/ NewNop
    \/ \E name \in Names : NewVariable(name)
    \/ BlockAdd

SpecBlock == Init /\ [][NextBlock]_vars

(* C7: after any sequence of Block::add calls the Block's error() is true  *)
(* exactly when at least one appended line reports error() true.           *)
C7_BlockErrorIffLineError ==
    Block_error(lines) <=> (\E i \in 1..Len(lines) : lines[i].err)

(***************************************************************************)
(* Declarations (specification SpecDecl).                                  *)
(***************************************************************************)
(* Symbol Scope: declare(name, type) -> ok | already-declared.             *)
SymbolMap_declare(symbols, name, type) ==
    IF symbols[name] # NoSymbol
    THEN [ok |-> FALSE, symbols |-> symbols]
    ELSE [ok |-> TRUE, symbols |-> [symbols EXCEPT ![name] = type]]

(* The rule shared by Declaration::add, VarDecl and ArrayDecl: insert the  *)
(* name, report a redeclaration, then require an initializer (init is      *)
(* empty or holds the one initializer node) to have the declared type.     *)
declare_binding(symbols, t, name, init, ln) ==
    LET ins == SymbolMap_declare(symbols, name, t)
        redecl == IF ins.ok THEN <<>> ELSE semantic_error_MULTIPLE_DEFINITION(name, ln).out
        mismatch ==
            IF init = <<>> \/ init[1].err \/ type_matches(t, init[1].type)
            THEN [threw |-> FALSE, out |-> <<>>]
            ELSE semantic_error_INCOMPATIBLE_ASSIGNMENT(t, init[1].type, ln)
    IN  [symbols |-> ins.symbols, diags |-> redecl \o mismatch.out, threw |-> mismatch.threw]

Declaration_add(symbols, t, name, init, ln) == declare_binding(symbols, t, name, init, ln)

VarDecl_ctor(symbols, t, name, init, ln) == declare_binding(symbols, t, name, init, ln)

ArrayDecl_ctor(symbols, t, name, ln) == declare_binding(symbols, t, name, <<>>, ln)

Declared(kind, t, name, init, d) ==
    /\ scope' = d.symbols
    /\ last' = Rec(kind, "none", t, name, init, Fields(t, FALSE, FALSE, Action_error),
                   d.diags, d.threw)
    /\ crashed' = d.threw

NewDeclaration(type) ==
    /\ ~crashed
    /\ decl' = type
    /\ last' = Rec("Declaration", "none", type, "", <<>>,
                   Fields(type, FALSE, FALSE, Action_error), <<>>, FALSE)
    /\ UNCHANGED <<stack, crashed, scope, funs, args, lines, line>>

(* add(name) *)
DeclarationAdd(name) ==
    /\ ~crashed /\ decl # TypeNone
    /\ Declared("Declaration::add", decl, name, <<>>,
                Declaration_add(scope, decl, name, <<>>, line))
    /\ UNCHANGED <<stack, decl, funs, args, lines, line>>

(* add(name, Action* ) takes the initializer from the stack. *)
DeclarationAddAction(name) ==
    /\ ~crashed /\ decl # TypeNone /\ Len(stack) >= 1
    /\ Declared("Declaration::add", decl, name, Top(1),
                Declaration_add(scope, decl, name, Top(1), line))
    /\ stack' = Rest(1)
    /\ UNCHANGED <<decl, funs, args, lines, line>>

(* add(name, literal): the initializer is the literal, of its own type. *)
DeclarationAddLiteral(name, type) ==
    /\ ~crashed /\ decl # TypeNone
    /\ LET value == <<Node(Constant_ctor(type).t, Constant_ctor(type).error)>>
       IN  Declared("Declaration::add", decl, name, value,
                    Declaration_add(scope, decl, name, value, line))
    /\ UNCHANGED <<stack, decl, funs, args, lines, line>>

NewVarDecl(type, name, n) ==
    /\ ~crashed /\ n \in 0..1 /\ n <= Len(stack)
    /\ Declared("VarDecl", type, name, Top(n), VarDecl_ctor(scope, type, name, Top(n), line))
    /\ stack' = Rest(n)
    /\ UNCHANGED <<decl, funs, args, lines, line>>

NewArrayDecl(type, name) ==
    /\ ~crashed
    /\ Declared("ArrayDecl", type, name, <<>>, ArrayDecl_ctor(scope, type, name, line))
    /\ UNCHANGED <<stack, decl, funs, args, lines, line>>

NextDecl ==
    \/ \E type \in LiteralTypes : NewConstant(type)
    \/ \E name \in Names : NewVariable(name)
    \/ \E type \in LiteralTypes : NewDeclaration(type)
    \/ \E name \in Names : DeclarationAdd(name)
    \/ \E name \in Names : DeclarationAddAction(name)
    \/ \E name \in Names, type \in LiteralTypes : DeclarationAddLiteral(name, type)
    \/ \E type \in LiteralTypes, name \in Names, n \in 0..1 : NewVarDecl(type, name, n)
    \/ \E type \in LiteralTypes, name \in Names : NewArrayDecl(type, name)

SpecDecl == Init /\ [][NextDecl]_vars

DeclarationKinds == {"Declaration::add", "VarDecl", "ArrayDecl"}

CountOf(err, diags) == Cardinality({i \in 1..Len(diags) : diags[i].err = err})

(* C4: once an identifier is declared its entry in Symbol Scope never      *)
(* changes, and a further declaration of it (Declaration::add, VarDecl or  *)
(* ArrayDecl, with any type) emits exactly one MULTIPLE_DEFINITION         *)
(* diagnostic and leaves the scope unchanged.                              *)
C4_Redeclaration ==
    [][/\ \A n \in Names : scope[n] # NoSymbol => scope'[n] = scope[n]
       /\ (last'.kind \in DeclarationKinds /\ scope[last'.name] # NoSymbol) =>
             /\ scope' = scope
             /\ CountOf("MULTIPLE_DEFINITION", last'.diags) = 1]_vars

C4_Witness ==
    /\ last.kind \in DeclarationKinds
    /\ CountOf("MULTIPLE_DEFINITION", last.diags) = 1
    /\ scope[last.name] \in LiteralTypes
    /\ scope[last.name] # last.given

(***************************************************************************)
(* Function calls (specification SpecCall).                                *)
(***************************************************************************)
ParamTypes == {"INT", "FLOAT"}

ReturnTypes == {"INT", "BOOL", "VOID"}

RECURSIVE SeqsUpTo(_, _)
SeqsUpTo(S, n) ==
    IF n = 0 THEN {<<>>}
    ELSE SeqsUpTo(S, n - 1) \cup {Append(q, x) : q \in SeqsUpTo(S, n - 1), x \in S}

(* Symbol Scope: declareFunction(name, paramTypes, returnType)             *)
(*   -> ok | already-declared.                                             *)
SymbolMap_declareFunction(symbols, name, params, ret) ==
    IF symbols[name].declared
    THEN [ok |-> FALSE, symbols |-> symbols]
    ELSE [ok |-> TRUE,
          symbols |-> [symbols EXCEPT
                          ![name] = [declared |-> TRUE, params |-> params, ret |-> ret]]]

DeclareFunction(name, params, ret) ==
    /\ ~crashed
    /\ LET d == SymbolMap_declareFunction(funs, name, params, ret)
       IN  /\ funs' = d.symbols
           /\ last' = Rec("declareFunction", "none", ret, name, <<>>,
                          Fields(ret, ~d.ok, FALSE, FALSE), <<>>, FALSE)
    /\ UNCHANGED <<stack, crashed, scope, decl, args, lines, line>>

(* ExpressionList has no constructor and no initializer for fail: a new    *)
(* list's fail is whatever the build leaves there.                         *)
NewExpressionList(garbage) ==
    /\ ~crashed /\ ~args.made
    /\ args' = [made |-> TRUE, expressions |-> <<>>, fail |-> garbage]
    /\ last' = Rec("ExpressionList", "none", TypeNone, "", <<>>,
                   Fields("VOID", garbage, FALSE, garbage), <<>>, FALSE)
    /\ UNCHANGED <<stack, crashed, scope, decl, funs, lines, line>>

(* ExpressionList::add: the expression joins the list; a failed member     *)
(* fails the list.                                                         *)
ExpressionList_add(list, action) ==
    [list EXCEPT !.expressions = Append(@, action), !.fail = @ \/ action.err]

ExpressionList_error(list) == list.fail

(* The expressions a call is given, as their constructors leave them:      *)
(* Constant(type), Nop, Variable(name) and Operation(PLUS, Constant(type), *)
(* Variable(name)).  A Variable of an undeclared name has type ANY and     *)
(* error() true; the Operation over it keeps the Constant's type and has   *)
(* error() true.                                                           *)
ArgumentNodes(symbols, ln) ==
    LET constants == {Node(Constant_ctor(type).t, Constant_ctor(type).error) :
                         type \in LiteralTypes}
        variables == {Node(Variable_ctor(name, symbols, ln).node.t,
                           Variable_ctor(name, symbols, ln).node.error) : name \in Names}
        operations == {Operation_first("PLUS", <<c, v>>, ln) :
                          c \in constants, v \in variables}
    IN  constants \cup {Node(Nop_type, Action_error)} \cup variables
        \cup {Node(Operation_type(o), Operation_error(o)) : o \in operations}

(* list->add(expression). *)
ExpressionListAdd(action) ==
    /\ ~crashed /\ args.made /\ Len(args.expressions) < MaxArgs
    /\ args' = ExpressionList_add(args, action)
    /\ last' = Rec("ExpressionList::add", "none", TypeNone, "", <<action>>,
                   Fields("VOID", args'.fail, FALSE, ExpressionList_error(args')),
                   <<>>, FALSE)
    /\ UNCHANGED <<stack, crashed, scope, decl, funs, lines, line>>

(* The per-position check of the arguments against the parameter types.    *)
RECURSIVE check_params(_, _, _, _, _)
check_params(self, name, params, exprs, ln) ==
    IF params = <<>> \/ self.threw THEN self
    ELSE IF type_matches(Head(params), Head(exprs).type)
            \/ can_coerce(Head(params), Head(exprs).type)
         THEN check_params(self, name, Tail(params), Tail(exprs), ln)
    ELSE LET e == semantic_error_INCOMPATIBLE_PARAM(name, Head(params), Head(exprs).type, ln)
         IN  IF e.threw THEN [self EXCEPT !.threw = TRUE]
             ELSE check_params([self EXCEPT !.fail = TRUE, !.diags = @ \o e.out],
                               name, Tail(params), Tail(exprs), ln)

(* FunCall(name, args) for a declared function.  The arity is compared     *)
(* first.  The call's child is its argument list: a list that already      *)
(* failed fails the call, and the per-position check, whose mismatches     *)
(* would repeat the arguments' own errors, is not made.                    *)
FunCall_ctor(name, list, symbols, ln) ==
    LET sig == symbols[name]
        expected == Len(sig.params)
        actual == Len(list.expressions)
    IN  IF expected # actual
        THEN [t |-> "ANY", fail |-> TRUE, threw |-> FALSE,
              diags |-> semantic_error_WRONG_PARAM_COUNT(name, expected, actual, ln).out]
        ELSE IF ExpressionList_error(list)
        THEN [t |-> sig.ret, fail |-> TRUE, threw |-> FALSE, diags |-> <<>>]
        ELSE check_params([t |-> sig.ret, fail |-> FALSE, threw |-> FALSE, diags |-> <<>>],
                          name, sig.params, list.expressions, ln)

FunCall_type(self) == self.t

FunCall_error(self) == self.fail

(* The call takes the list over: args keeps describing it until the next   *)
(* list is made.                                                           *)
NewFunCall(name) ==
    /\ ~crashed /\ args.made /\ funs[name].declared
    /\ LET c == FunCall_ctor(name, args, funs, line)
       IN  /\ last' = Rec("FunCall", "none", TypeNone, name, args.expressions,
                          Fields(FunCall_type(c), c.fail, FALSE, FunCall_error(c)),
                          c.diags, c.threw)
           /\ crashed' = c.threw
    /\ args' = [args EXCEPT !.made = FALSE]
    /\ UNCHANGED <<stack, scope, decl, funs, lines, line>>

NextCall ==
    \/ \E name \in FunNames, params \in SeqsUpTo(ParamTypes, MaxParams), ret \in ReturnTypes :
          DeclareFunction(name, params, ret)
    \/ \E garbage \in BOOLEAN : NewExpressionList(garbage)
    \/ \E action \in ArgumentNodes(scope, line) : ExpressionListAdd(action)
    \/ \E name \in FunNames : NewFunCall(name)

SpecCall == Init /\ [][NextCall]_vars

ArgumentFits(param, arg) == arg.type = param \/ (param = "FLOAT" /\ arg.type = "INT")

FitsSignature(params, given) ==
    /\ Len(given) = Len(params)
    /\ \A i \in 1..Len(params) : ArgumentFits(params[i], given[i])

WrongCount ==
    /\ ~last.threw
    /\ Len(last.diags) = 1
    /\ last.diags[1].err = "WRONG_PARAM_COUNT"
    /\ last.t = "ANY"
    /\ last.error

(* C5 as written: a FunCall with as many arguments as the callee has       *)
(* parameters, each of the parameter's type or INT for a FLOAT parameter,  *)
(* emits no diagnostic, has error() false and the callee's return type; a  *)
(* FunCall with another number of arguments emits exactly one              *)
(* WRONG_PARAM_COUNT diagnostic, has type ANY and error() true.            *)
C5_AsWritten ==
    last.kind = "FunCall" =>
        LET params == funs[last.name].params
            given == last.children
        IN  /\ FitsSignature(params, given) =>
                   Silent /\ ~last.error /\ last.t = funs[last.name].ret
            /\ Len(given) # Len(params) => WrongCount

(* C5 as amended: a FunCall with as many arguments as the callee has       *)
(* parameters, each of the parameter's type or INT for a FLOAT parameter,  *)
(* emits no diagnostic and has the callee's return type, and its error()   *)
(* is true exactly when its argument list's error() is true; a FunCall     *)
(* with another number of arguments emits exactly one WRONG_PARAM_COUNT    *)
(* diagnostic, has type ANY and error() true.                              *)
C5_FunCall ==
    last.kind = "FunCall" =>
        LET params == funs[last.name].params
            given == last.children
        IN  /\ FitsSignature(params, given) =>
                   /\ Silent
                   /\ last.t = funs[last.name].ret
                   /\ last.error <=> ExpressionList_error(args)
            /\ Len(given) # Len(params) => WrongCount

(* A call f(1, 2) of f(FLOAT, INT) over a list whose flag is clear.        *)
C5_Witness ==
    /\ last.kind = "FunCall"
    /\ funs[last.name].params = <<"FLOAT", "INT">>
    /\ last.children = <<Node("INT", FALSE), Node("INT", FALSE)>>
    /\ ~ExpressionList_error(args)
    /\ Silent /\ ~last.error /\ last.t = funs[last.name].ret

(***************************************************************************)
(* Operator tables and the line counter (specification SpecDiag).          *)
(***************************************************************************)
(* C11 as written: for every value of Operator the lookup of its symbol    *)
(* and the lookup of its human-readable name both succeed.                 *)
C11_AsWritten ==
    last.kind \in {"to_string", "to_printable_string"} =>
        ~last.threw /\ Len(last.types) = 1

SymbolOps == ComparisonOps \cup BoolOps \cup ArithmeticOps

(* C11 amended: the comparison, boolean and arithmetic operators have a    *)
(* symbol and a name; UNARY_MINUS, ASSIGN and TEST have a name and no      *)
(* symbol; PAR and CAST have neither; a lookup succeeds exactly for the    *)
(* operators that have the entry and throws for the others.                *)
C11_OperatorTables ==
    /\ last.kind = "to_string" =>
          /\ last.threw <=> last.op \notin SymbolOps
          /\ Len(last.types) = IF last.op \in SymbolOps THEN 1 ELSE 0
    /\ last.kind = "to_printable_string" =>
          /\ last.threw <=> last.op \in {"PAR", "CAST"}
          /\ Len(last.types) = IF last.op \in {"PAR", "CAST"} THEN 0 ELSE 1

C11_Witness ==
    /\ last.kind = "to_string" /\ last.op = "UNARY_MINUS"
    /\ last.threw /\ crashed

LinePrefix(n) == <<"[Line ">> \o size_to_string(n) \o <<"] ", "semantic", " error: ">>

HasPrefix(text, prefix) ==
    Len(text) >= Len(prefix) /\ SubSeq(text, 1, Len(prefix)) = prefix

(* C12: the line counter starts at 1 and never decreases; emitting a       *)
(* diagnostic leaves it unchanged, and every diagnostic begins with        *)
(* "[Line n] semantic error: " where n is the counter at the emission.     *)
C12_LineCounter ==
    /\ line = 1
    /\ [][/\ line' >= line
          /\ last'.kind = "semantic_error" =>
                /\ line' = line
                /\ \A i \in 1..Len(last'.diags) :
                      HasPrefix(last'.diags[i].text, LinePrefix(line))]_vars

C12_Witness ==
    /\ last.kind = "semantic_error" /\ line = 2
    /\ Len(last.diags) = 1
    /\ HasPrefix(last.diags[1].text, <<"[Line ", "2", "] ", "semantic", " error: ">>)

====
